---- MODULE Spec2Model ----
(***************************************************************************)
(* ClusterForge: the resource ledger (Node), the task entity (Task) and    *)
(* the cluster front end (Cluster) as a state machine.                     *)
(*                                                                         *)
(* Usage fractions (ResourceMetrics::cpu_usage / memory_usage, doubles in  *)
(* the source) are kept in fixed point: the value v stands for v / One.    *)
(* All node capacities are powers of two, so every quotient                *)
(* requirement / capacity the code forms is exact both in binary floating  *)
(* point and in this representation.                                       *)
(***************************************************************************)
EXTENDS Integers, Sequences, FiniteSets, TLC

\* ------------------------------------------------------------------ bounds
NumTasks == 2
MaxNodes == 2
MaxThreads == 2
NumCallers == 2
MaxRunning == 2

\* --------------------------------------------------------------- constants
\* the literal 1.0 of the usage fractions, in fixed point
One == 8
\* CPU_THRESHOLD = 0.8 and MEMORY_THRESHOLD = 0.85, in hundredths
CPU_THRESHOLD == 80
MEMORY_THRESHOLD == 85
\* NodeConfig of every node of the model (Scenario A/C: 4 cores, 8 GB)
max_cpu_cores == 4
max_memory_gb == 8
max_disk_gb == 500

Tasks == 1..NumTasks
NodeObjs == 1..MaxNodes
NodeIds == 1..MaxNodes
Callers == 1..NumCallers
NoNode == 0 - 1

NodeStatus == {"ONLINE", "OFFLINE", "DEGRADED", "FAILED"}
TaskStatus == {"PENDING", "RUNNING", "COMPLETED", "FAILED", "CANCELLED"}
Terminal == {"COMPLETED", "FAILED", "CANCELLED"}

\* TaskRequirements of the task objects the callers create: task 1 books a
\* whole node (4 cores), the others are small; memory is in GB, disk in GB.
requirements(t) ==
    IF t = 1 THEN [cpu_cores |-> 4, memory_gb |-> 4, disk_gb |-> 10]
    ELSE IF t % 2 = 0 THEN [cpu_cores |-> 1, memory_gb |-> 1, disk_gb |-> 1]
    ELSE [cpu_cores |-> 2, memory_gb |-> 2, disk_gb |-> 1]

\* the (cpu, memory) loads handed to Node::updateMetrics and
\* Node::simulateWorkload: (0.0, 0.0), (-0.5, 0.0), (0.0, -0.5), (1.5, 1.5),
\* each with a disk_io reading in MB/s
Loads ==
    {[cpu |-> 0, mem |-> 0, disk |-> 0],
     [cpu |-> 0 - (One \div 2), mem |-> 0, disk |-> 0],
     [cpu |-> 0, mem |-> 0 - (One \div 2), disk |-> 0],
     [cpu |-> One + (One \div 2), mem |-> One + (One \div 2), disk |-> 100]}

\* the loads of the query specifications: (0.0, 0.0), (0.5, 0.5), (0.75, 0.75),
\* (0.875, 0.0), (0.0, 0.875), (1.0, 1.0)
QueryLoads ==
    {[cpu |-> 0, mem |-> 0],
     [cpu |-> One \div 2, mem |-> One \div 2],
     [cpu |-> One - (One \div 4), mem |-> One - (One \div 4)],
     [cpu |-> One - (One \div 8), mem |-> 0],
     [cpu |-> 0, mem |-> One - (One \div 8)],
     [cpu |-> One, mem |-> One]}

\* values disk_dist of Node::simulateWorkload draws for disk_io (MB/s)
DiskDraws == {0, 100}

\* TaskRequirements handed to Node::canAcceptTask: a small task, one at the
\* limits of a half-used node and of the disk rule, a whole node with a
\* network need no node has, and one each beyond the disk rule, the cores and
\* the memory of a node
Requests ==
    {[cpu_cores |-> 1, memory_gb |-> 1, disk_gb |-> 1, network_mbps |-> 10],
     [cpu_cores |-> 2, memory_gb |-> 4, disk_gb |-> 50, network_mbps |-> 10],
     [cpu_cores |-> 4, memory_gb |-> 8, disk_gb |-> 10, network_mbps |-> 2000],
     [cpu_cores |-> 1, memory_gb |-> 1, disk_gb |-> 51, network_mbps |-> 10],
     [cpu_cores |-> 5, memory_gb |-> 1, disk_gb |-> 1, network_mbps |-> 10],
     [cpu_cores |-> 1, memory_gb |-> 9, disk_gb |-> 1, network_mbps |-> 10]}

\* the task ids handed to Task::addDependency and Task::areDependenciesMet:
\* those of the tasks and two ids no task has
DepIds == 1..(NumTasks + 2)

\* enum class TaskPriority
LOW == 1
NORMAL == 2
HIGH == 3
CRITICAL == 4
TaskPriority == {LOW, NORMAL, HIGH, CRITICAL}

VARIABLES
    nodes_,            \* Cluster::nodes_: the node objects, in addNode order
    node_map_,         \* Cluster::node_map_: node id -> node object (0: none)
    node_id,           \* NodeConfig::node_id of each node object
    node_status,       \* Node::status_
    cpu_usage,         \* Node::current_metrics_.cpu_usage (fixed point)
    memory_usage,      \* Node::current_metrics_.memory_usage (fixed point)
    disk_io,           \* Node::current_metrics_.disk_io (MB/s)
    running_tasks,     \* Node::running_tasks_ (sequence of task ids)
    heartbeat_expired, \* now - last_heartbeat_ >= FAILOVER_TIMEOUT
    task_status,       \* Task::status_
    started_time,      \* Task::started_time_: 0 is the epoch (not set), 1 a clock reading
    completed_time,    \* Task::completed_time_: 0 is the epoch (not set), 1 a clock reading
    notified_status,   \* the status Task::status_change_callback_ was last called with
    assigned_node_id,  \* Task::assigned_node_id_
    is_executing,      \* Task::is_executing_
    dependencies_,     \* Task::dependencies_ (sequence of task ids)
    priority_,         \* Task::priority_ (the int of the TaskPriority)
    ready_queue,       \* a std::priority_queue of tasks under TaskPriorityComparator
    dispatched,        \* the task the queue yielded last (0: none yet)
    task_threads,      \* Cluster::task_threads_: [task, pc] per thread
    is_running,        \* Cluster::is_running_
    reported,          \* the last [id, status] logged by updateNodeHealth and
                       \* whether that call went on to handleNodeFailure
    enable_failover,   \* ClusterConfig::enable_failover
    status_change_callback_,  \* per node: what Node::notifyStatusChange calls
    callers,           \* concurrent submitTask calls: [pc, task, node]
    ret                \* the last call that returned a bool, and the bool

nodeVars == <<node_status, cpu_usage, memory_usage, disk_io, running_tasks,
              heartbeat_expired, status_change_callback_>>
statusVars == <<task_status, started_time, completed_time, notified_status>>
queueVars == <<priority_, ready_queue, dispatched>>
taskVars == <<statusVars, assigned_node_id, is_executing, dependencies_, queueVars>>
clusterVars == <<nodes_, node_map_, node_id, task_threads, is_running, reported,
                 enable_failover>>
vars == <<nodes_, node_map_, node_id, node_status, cpu_usage, memory_usage,
          disk_io, running_tasks, heartbeat_expired, task_status, started_time,
          completed_time, notified_status, assigned_node_id, is_executing,
          dependencies_, task_threads, is_running, reported, callers, ret,
          enable_failover, status_change_callback_, priority_, ready_queue,
          dispatched>>

Min(a, b) == IF a < b THEN a ELSE b
Max(a, b) == IF a > b THEN a ELSE b

Returned(op, ok) == [op |-> op, ok |-> ok]

\* ------------------------------------------------------------------- Init
\* the state of the objects right after their constructors: Node::Node,
\* Task::Task, Cluster::Cluster, and after the addDependency calls of
\* createSampleTasks; failover is the enable_failover of the ClusterConfig
\* handed to Cluster::Cluster
Constructors(failover) ==
    /\ node_status = [o \in NodeObjs |-> "ONLINE"]
    /\ cpu_usage = [o \in NodeObjs |-> 0]
    /\ memory_usage = [o \in NodeObjs |-> 0]
    /\ disk_io = [o \in NodeObjs |-> 0]
    /\ running_tasks = [o \in NodeObjs |-> <<>>]
    /\ heartbeat_expired = [o \in NodeObjs |-> FALSE]
    /\ task_status = [t \in Tasks |-> "PENDING"]
    /\ started_time = [t \in Tasks |-> 0]
    /\ completed_time = [t \in Tasks |-> 0]
    /\ notified_status = [t \in Tasks |-> "NONE"]
    /\ assigned_node_id = [t \in Tasks |-> NoNode]
    /\ is_executing = [t \in Tasks |-> FALSE]
    /\ dependencies_ = [t \in Tasks |-> IF t = 1 THEN <<>> ELSE <<t - 1>>]
    /\ priority_ = [t \in Tasks |-> NORMAL]
    /\ ready_queue = {}
    /\ dispatched = 0
    /\ task_threads = <<>>
    /\ is_running = FALSE
    /\ reported = [id |-> 0, status |-> "NONE", handled |-> FALSE]
    /\ enable_failover = failover
    /\ status_change_callback_ = [o \in NodeObjs |-> "none"]
    /\ callers = [c \in Callers |-> [pc |-> "idle", task |-> 0, node |-> NoNode]]
    /\ ret = Returned("none", TRUE)

\* the objects of main: ClusterConfig leaves enable_failover true by default
\* and main sets it true again
Fresh == Constructors(TRUE)

\* the cluster as main sets it up (initializeCluster): nodes 1, 2, ... added
\* in this order, nothing submitted yet
Init ==
    /\ nodes_ = [i \in 1..MaxNodes |-> i]
    /\ node_map_ = [i \in NodeIds |-> i]
    /\ node_id = [o \in NodeObjs |-> o]
    /\ Fresh

\* the same cluster under either setting of enable_failover
InitConfig ==
    /\ nodes_ = [i \in 1..MaxNodes |-> i]
    /\ node_map_ = [i \in NodeIds |-> i]
    /\ node_id = [o \in NodeObjs |-> o]
    /\ \E failover \in BOOLEAN : Constructors(failover)

\* the cluster right after Cluster::Cluster, before any addNode
InitEmpty ==
    /\ nodes_ = <<>>
    /\ node_map_ = [i \in NodeIds |-> 0]
    /\ node_id = [o \in NodeObjs |-> 0]
    /\ Fresh

\* the ids in Task::dependencies_ of a task; createSampleTasks builds a
\* chain, task t depends on task t-1
dependencies(t) == {dependencies_[t][i] : i \in 1..Len(dependencies_[t])}

\* the node objects constructed so far
Constructed == {nodes_[i] : i \in 1..Len(nodes_)}

\* a test that sends every status other than ONLINE to failure handling
handlesFailure_anyUnhealthy(s) == s # "ONLINE" /\ enable_failover

\* the test of Cluster::updateNodeHealth that leads to handleNodeFailure
handlesFailure(s) == s = "FAILED" /\ enable_failover

\* what Cluster::updateNodeHealth(id, s) leaves behind: the logged line and
\* whether Cluster::handleNodeFailure was called; handleNodeFailure logs and
\* calls FailoverHandler::handleNodeFailure, whose body is empty
updateNodeHealth(id, s) == [id |-> id, status |-> s, handled |-> handlesFailure(s)]

\* Task::setStatus: the status is assigned without any check, started_time_
\* and completed_time_ are set when still at the epoch, and the status
\* callback is called
setStatus(t, status) ==
    /\ task_status' = [task_status EXCEPT ![t] = status]
    /\ started_time' = [started_time EXCEPT ![t] =
           IF status = "RUNNING" /\ @ = 0 THEN 1 ELSE @]
    /\ completed_time' = [completed_time EXCEPT ![t] =
           IF status \in Terminal /\ @ = 0 THEN 1 ELSE @]
    /\ notified_status' = [notified_status EXCEPT ![t] = status]

\* ------------------------------------------------------------------- Node
\* a feasibility test that leaves out the disk rule
canAcceptTask_noDiskRule(o, reqs) ==
    /\ node_status[o] = "ONLINE"
    /\ ~(reqs.cpu_cores * One > max_cpu_cores * (One - cpu_usage[o]))
    /\ ~(reqs.memory_gb * One > max_memory_gb * (One - memory_usage[o]))

\* Node::canAcceptTask
canAcceptTask(o, reqs) ==
    /\ node_status[o] = "ONLINE"
    /\ ~(reqs.cpu_cores * One > max_cpu_cores * (One - cpu_usage[o]))
    /\ ~(reqs.memory_gb * One > max_memory_gb * (One - memory_usage[o]))
    /\ ~(reqs.disk_gb * 10 > max_disk_gb)

\* a health test that does not look at the heartbeat
isHealthy_noHeartbeat(o) ==
    /\ node_status[o] = "ONLINE"
    /\ cpu_usage[o] * 100 < CPU_THRESHOLD * One
    /\ memory_usage[o] * 100 < MEMORY_THRESHOLD * One

\* Node::isHealthy
isHealthy(o) ==
    /\ node_status[o] = "ONLINE"
    /\ ~heartbeat_expired[o]
    /\ cpu_usage[o] * 100 < CPU_THRESHOLD * One
    /\ memory_usage[o] * 100 < MEMORY_THRESHOLD * One

\* the usage a task adds to (or takes from) a node: requirement / capacity
cpuShare(t) == (requirements(t).cpu_cores * One) \div max_cpu_cores
memoryShare(t) == (requirements(t).memory_gb * One) \div max_memory_gb

\* std::find_if over a task list: position of the first entry with this
\* task id, 0 if none
firstOf(list, task_id) ==
    LET hits == {i \in 1..Len(list) : list[i] = task_id}
    IN IF hits = {} THEN 0 ELSE CHOOSE i \in hits : \A j \in hits : i <= j

\* position of the first entry of running_tasks_ with this task id, 0 if none
findTask(o, task_id) == firstOf(running_tasks[o], task_id)

\* usage += share; usage = std::min(usage, 1.0) of Node::addTask
charge(usage, share) == Min(usage + share, One)

\* a removal that leaves the share of the task booked
release_keepsUsage(usage, share) == usage

\* usage -= share; usage = std::max(usage, 0.0) of Node::removeTask
release(usage, share) == Max(usage - share, 0)

eraseAt(s, i) == [j \in 1..(Len(s) - 1) |-> IF j < i THEN s[j] ELSE s[j + 1]]

\* the state change of a successful Node::addTask (lines 65-76)
addTaskEffect(o, t) ==
    /\ running_tasks' = [running_tasks EXCEPT ![o] = Append(@, t)]
    /\ assigned_node_id' = [assigned_node_id EXCEPT ![t] = node_id[o]]
    /\ cpu_usage' = [cpu_usage EXCEPT ![o] = charge(@, cpuShare(t))]
    /\ memory_usage' = [memory_usage EXCEPT ![o] = charge(@, memoryShare(t))]

\* the state change of a successful Node::removeTask (lines 89-98)
removeTaskEffect(o, task_id) ==
    /\ cpu_usage' = [cpu_usage EXCEPT ![o] = release(@, cpuShare(task_id))]
    /\ memory_usage' = [memory_usage EXCEPT ![o] = release(@, memoryShare(task_id))]
    /\ assigned_node_id' = [assigned_node_id EXCEPT ![task_id] = NoNode]
    /\ running_tasks' = [running_tasks EXCEPT ![o] = eraseAt(@, findTask(o, task_id))]

\* Node::canAcceptTask, called on a node object directly (a const function)
Node_canAcceptTask(o, reqs) ==
    /\ o \in Constructed
    /\ ret' = Returned("canAcceptTask", canAcceptTask(o, reqs))
    /\ UNCHANGED <<nodeVars, taskVars, clusterVars, callers>>

\* Node::isHealthy, called on a node object directly (a const function)
Node_isHealthy(o) ==
    /\ o \in Constructed
    /\ ret' = Returned("isHealthy", isHealthy(o))
    /\ UNCHANGED <<nodeVars, taskVars, clusterVars, callers>>

\* Node::addTask, called on a node object directly
Node_addTask(o, t) ==
    /\ o \in Constructed
    /\ Len(running_tasks[o]) < MaxRunning
    /\ IF canAcceptTask(o, requirements(t))
       THEN /\ addTaskEffect(o, t)
            /\ ret' = Returned("addTask", TRUE)
       ELSE /\ UNCHANGED <<running_tasks, assigned_node_id, cpu_usage, memory_usage>>
            /\ ret' = Returned("addTask", FALSE)
    /\ UNCHANGED <<node_status, heartbeat_expired, disk_io, statusVars, is_executing,
                   clusterVars, callers,
                   dependencies_, queueVars, status_change_callback_>>

\* Node::removeTask, called on a node object directly
Node_removeTask(o, task_id) ==
    /\ o \in Constructed
    /\ IF findTask(o, task_id) # 0
       THEN /\ removeTaskEffect(o, task_id)
            /\ ret' = Returned("removeTask", TRUE)
       ELSE /\ UNCHANGED <<running_tasks, assigned_node_id, cpu_usage, memory_usage>>
            /\ ret' = Returned("removeTask", FALSE)
    /\ UNCHANGED <<node_status, heartbeat_expired, disk_io, statusVars, is_executing,
                   clusterVars, callers,
                   dependencies_, queueVars, status_change_callback_>>

\* Node::addTask(t) and, when it returned true, Node::removeTask(t.id) right
\* after it, by one caller with no other call in between; the list between
\* the two calls has one entry more than the lists before and after
Node_addTaskThenRemoveTask(o, t) ==
    /\ o \in Constructed
    /\ Len(running_tasks[o]) <= MaxRunning
    /\ IF canAcceptTask(o, requirements(t))
       THEN LET added == Append(running_tasks[o], t) IN
            /\ running_tasks' = [running_tasks EXCEPT ![o] =
                   eraseAt(added, firstOf(added, t))]
            /\ assigned_node_id' = [assigned_node_id EXCEPT ![t] = NoNode]
            /\ cpu_usage' = [cpu_usage EXCEPT ![o] =
                   release(charge(@, cpuShare(t)), cpuShare(t))]
            /\ memory_usage' = [memory_usage EXCEPT ![o] =
                   release(charge(@, memoryShare(t)), memoryShare(t))]
            /\ ret' = Returned("removeTask", TRUE)
       ELSE /\ UNCHANGED <<running_tasks, assigned_node_id, cpu_usage, memory_usage>>
            /\ ret' = Returned("addTask", FALSE)
    /\ UNCHANGED <<node_status, heartbeat_expired, disk_io, statusVars, is_executing,
                   clusterVars, callers,
                   dependencies_, queueVars, status_change_callback_>>

\* Node::updateMetrics: the metrics handed in replace the current ones
Node_updateMetrics(o, cpu, mem, disk) ==
    /\ o \in Constructed
    /\ cpu_usage' = [cpu_usage EXCEPT ![o] = cpu]
    /\ memory_usage' = [memory_usage EXCEPT ![o] = mem]
    /\ disk_io' = [disk_io EXCEPT ![o] = disk]
    /\ UNCHANGED <<node_status, running_tasks, heartbeat_expired, taskVars,
                   clusterVars, callers, ret,
                   status_change_callback_>>

\* Node::simulateWorkload: the loads replace the usage, capped at 1.0 only;
\* disk_io becomes the value drawn from disk_dist, here the argument drawn
Node_simulateWorkload(o, cpu_load, memory_load, drawn) ==
    /\ o \in Constructed
    /\ cpu_usage' = [cpu_usage EXCEPT ![o] = Min(cpu_load, One)]
    /\ memory_usage' = [memory_usage EXCEPT ![o] = Min(memory_load, One)]
    /\ disk_io' = [disk_io EXCEPT ![o] = drawn]
    /\ UNCHANGED <<node_status, running_tasks, heartbeat_expired, taskVars,
                   clusterVars, callers, ret,
                   status_change_callback_>>

\* a setStatus that drops the tasks of a node that leaves ONLINE
Node_setStatus_releasingTasks(o, s) ==
    /\ o \in Constructed
    /\ node_status' = [node_status EXCEPT ![o] = s]
    /\ running_tasks' = [running_tasks EXCEPT ![o] = IF s = "ONLINE" THEN @ ELSE <<>>]
    /\ UNCHANGED <<cpu_usage, memory_usage, heartbeat_expired, disk_io,
                   taskVars, clusterVars, callers, ret,
                   status_change_callback_>>

\* Node::setStatus: the status is assigned without any check, then
\* notifyStatusChange calls the status callback when one is installed
\* (Cluster::addNode installs none); an installed callback is one that
\* passes the id and the new status to Cluster::updateNodeHealth
Node_setStatus(o, s) ==
    /\ o \in Constructed
    /\ node_status' = [node_status EXCEPT ![o] = s]
    /\ reported' = IF status_change_callback_[o] = "updateNodeHealth"
                   THEN updateNodeHealth(node_id[o], s)
                   ELSE reported
    /\ UNCHANGED <<cpu_usage, memory_usage, running_tasks, heartbeat_expired, disk_io,
                   taskVars, nodes_, node_map_, node_id, task_threads, is_running,
                   enable_failover, callers, ret, status_change_callback_>>

\* Node::setStatusChangeCallback
Node_setStatusChangeCallback(o, callback) ==
    /\ o \in Constructed
    /\ status_change_callback_' = [status_change_callback_ EXCEPT ![o] = callback]
    /\ UNCHANGED <<node_status, cpu_usage, memory_usage, disk_io, running_tasks,
                   heartbeat_expired, taskVars, clusterVars, callers, ret>>

\* Node::updateHeartbeat
Node_updateHeartbeat(o) ==
    /\ o \in Constructed
    /\ heartbeat_expired' = [heartbeat_expired EXCEPT ![o] = FALSE]
    /\ UNCHANGED <<node_status, cpu_usage, memory_usage, disk_io, running_tasks,
                   taskVars, clusterVars, callers, ret,
                   status_change_callback_>>

\* FAILOVER_TIMEOUT milliseconds pass without a heartbeat of the node
HeartbeatTimeout(o) ==
    /\ o \in Constructed
    /\ ~heartbeat_expired[o]
    /\ heartbeat_expired' = [heartbeat_expired EXCEPT ![o] = TRUE]
    /\ UNCHANGED <<node_status, cpu_usage, memory_usage, disk_io, running_tasks,
                   taskVars, clusterVars, callers, ret,
                   status_change_callback_>>

\* ---------------------------------------------------------------- Cluster
\* Cluster::addNode
Cluster_addNode(id) ==
    /\ IF Len(nodes_) >= MaxNodes
       THEN /\ UNCHANGED <<nodes_, node_map_, node_id>>
            /\ ret' = Returned("addNode", FALSE)
       ELSE LET o == Len(nodes_) + 1 IN
            /\ nodes_' = Append(nodes_, o)
            /\ node_id' = [node_id EXCEPT ![o] = id]
            /\ node_map_' = [node_map_ EXCEPT ![id] = o]
            /\ ret' = Returned("addNode", TRUE)
    /\ UNCHANGED <<nodeVars, taskVars, task_threads, is_running, reported, callers,
                   enable_failover>>

\* the score of a node in Cluster::findBestNode, times 2 * One
score(o) == 2 * One - (cpu_usage[o] + memory_usage[o])

\* a selection loop without the isHealthy test
RECURSIVE findBestFrom_noHealthTest(_, _, _, _)
findBestFrom_noHealthTest(i, reqs, best_node_id, best_score) ==
    IF i > Len(nodes_) THEN best_node_id
    ELSE LET o == nodes_[i] IN
         IF canAcceptTask(o, reqs) /\ score(o) > best_score
         THEN findBestFrom_noHealthTest(i + 1, reqs, node_id[o], score(o))
         ELSE findBestFrom_noHealthTest(i + 1, reqs, best_node_id, best_score)

\* Cluster::findBestNode: the loop over nodes_ from position i on, carrying
\* best_node_id and best_score
RECURSIVE findBestFrom(_, _, _, _)
findBestFrom(i, reqs, best_node_id, best_score) ==
    IF i > Len(nodes_) THEN best_node_id
    ELSE LET o == nodes_[i] IN
         IF isHealthy(o) /\ canAcceptTask(o, reqs) /\ score(o) > best_score
         THEN findBestFrom(i + 1, reqs, node_id[o], score(o))
         ELSE findBestFrom(i + 1, reqs, best_node_id, best_score)

findBestNode(reqs) == findBestFrom(1, reqs, NoNode, 0 - 2 * One)

\* Cluster::getNode: the node object of an id, 0 for nullptr
getNode(id) == IF id \in NodeIds THEN node_map_[id] ELSE 0

\* a submitTask that marks the task FAILED when it finds no node
Cluster_submitTask_failsTask(t) ==
    /\ LET best_node_id == findBestNode(requirements(t))
           node == getNode(best_node_id)
       IN IF best_node_id # NoNode /\ node # 0
             /\ canAcceptTask(node, requirements(t))
          THEN /\ Len(task_threads) < MaxThreads
               /\ Len(running_tasks[node]) < MaxRunning
               /\ addTaskEffect(node, t)
               /\ task_threads' = Append(task_threads, [task |-> t, pc |-> "spawned"])
               /\ ret' = Returned("submitTask", TRUE)
               /\ UNCHANGED statusVars
          ELSE /\ UNCHANGED <<running_tasks, assigned_node_id, cpu_usage,
                              memory_usage, task_threads>>
               /\ setStatus(t, "FAILED")
               /\ ret' = Returned("submitTask", FALSE)
    /\ UNCHANGED <<node_status, heartbeat_expired, disk_io, is_executing,
                   nodes_, node_map_, node_id, is_running, reported, callers,
                   dependencies_, queueVars,
                   status_change_callback_, enable_failover>>

\* Cluster::submitTask, the caller running it alone. The thread it creates
\* runs Cluster::executeTask (ThreadStep).
Cluster_submitTask(t) ==
    /\ LET best_node_id == findBestNode(requirements(t))
           node == getNode(best_node_id)
       IN IF best_node_id # NoNode /\ node # 0
             /\ canAcceptTask(node, requirements(t))
          THEN /\ Len(task_threads) < MaxThreads
               /\ Len(running_tasks[node]) < MaxRunning
               /\ addTaskEffect(node, t)
               /\ task_threads' = Append(task_threads, [task |-> t, pc |-> "spawned"])
               /\ ret' = Returned("submitTask", TRUE)
          ELSE /\ UNCHANGED <<running_tasks, assigned_node_id, cpu_usage,
                              memory_usage, task_threads>>
               /\ ret' = Returned("submitTask", FALSE)
    /\ UNCHANGED <<node_status, heartbeat_expired, disk_io, statusVars, is_executing,
                   nodes_, node_map_, node_id, is_running, reported, callers,
                   dependencies_, queueVars,
                   status_change_callback_, enable_failover>>

\* a thread that ends after setStatus(RUNNING)
ThreadStep_endsAtRunning(i) ==
    /\ i \in 1..Len(task_threads)
    /\ task_threads[i].pc = "spawned"
    /\ setStatus(task_threads[i].task, "RUNNING")
    /\ task_threads' = [task_threads EXCEPT ![i].pc = "running"]
    /\ UNCHANGED <<nodeVars, assigned_node_id, is_executing, nodes_, node_map_,
                   node_id, is_running, reported, callers, ret,
                   dependencies_, queueVars, enable_failover>>

\* Cluster::executeTask, one statement of one thread: setStatus(RUNNING),
\* then setStatus(COMPLETED). Task::setStatus assigns without any check.
ThreadStep(i) ==
    /\ i \in 1..Len(task_threads)
    /\ task_threads[i].pc # "done"
    /\ LET t == task_threads[i].task IN
       IF task_threads[i].pc = "spawned"
       THEN /\ setStatus(t, "RUNNING")
            /\ task_threads' = [task_threads EXCEPT ![i].pc = "running"]
       ELSE /\ setStatus(t, "COMPLETED")
            /\ task_threads' = [task_threads EXCEPT ![i].pc = "done"]
    /\ UNCHANGED <<nodeVars, assigned_node_id, is_executing, nodes_, node_map_,
                   node_id, is_running, reported, callers, ret,
                   dependencies_, queueVars, enable_failover>>

\* the first node of nodes_, from position i on, that holds the task; 0 if none
RECURSIVE holderFrom(_, _)
holderFrom(i, task_id) ==
    IF i > Len(nodes_) THEN 0
    ELSE IF findTask(nodes_[i], task_id) # 0 THEN nodes_[i]
    ELSE holderFrom(i + 1, task_id)

\* a cancelTask that reports success whether or not a node held the task
Cluster_cancelTask_alwaysTrue(task_id) ==
    /\ LET o == holderFrom(1, task_id) IN
       IF o # 0
       THEN removeTaskEffect(o, task_id)
       ELSE UNCHANGED <<running_tasks, assigned_node_id, cpu_usage, memory_usage>>
    /\ ret' = Returned("cancelTask", TRUE)
    /\ UNCHANGED <<node_status, heartbeat_expired, disk_io, statusVars, is_executing,
                   clusterVars, callers,
                   dependencies_, queueVars, status_change_callback_>>

\* Cluster::cancelTask
Cluster_cancelTask(task_id) ==
    /\ LET o == holderFrom(1, task_id) IN
       IF o # 0
       THEN /\ removeTaskEffect(o, task_id)
            /\ ret' = Returned("cancelTask", TRUE)
       ELSE /\ UNCHANGED <<running_tasks, assigned_node_id, cpu_usage, memory_usage>>
            /\ ret' = Returned("cancelTask", FALSE)
    /\ UNCHANGED <<node_status, heartbeat_expired, disk_io, statusVars, is_executing,
                   clusterVars, callers,
                   dependencies_, queueVars, status_change_callback_>>

\* Cluster::updateNodeHealth: logs the status; on FAILED with enable_failover
\* Cluster::handleNodeFailure calls FailoverHandler::handleNodeFailure,
\* whose body is empty
Cluster_updateNodeHealth(id, s) ==
    /\ id \in {node_id[o] : o \in Constructed}
    /\ reported' = updateNodeHealth(id, s)
    /\ UNCHANGED <<nodeVars, taskVars, nodes_, node_map_, node_id, task_threads,
                   is_running, callers, ret, enable_failover>>

\* Cluster::start
Cluster_start ==
    /\ IF is_running
       THEN /\ ret' = Returned("start", FALSE)
            /\ UNCHANGED is_running
       ELSE /\ is_running' = TRUE
            /\ ret' = Returned("start", TRUE)
    /\ UNCHANGED <<nodeVars, taskVars, nodes_, node_map_, node_id, task_threads,
                   reported, callers, enable_failover>>

AllThreadsDone == \A i \in 1..Len(task_threads) : task_threads[i].pc = "done"

\* Cluster::stop: returns at once when the cluster is not running; otherwise
\* joins every thread (it returns only when all of them have ended) and
\* clears task_threads_
Cluster_stop ==
    /\ IF ~is_running
       THEN /\ ret' = Returned("stop", FALSE)
            /\ UNCHANGED <<is_running, task_threads>>
       ELSE /\ AllThreadsDone
            /\ is_running' = FALSE
            /\ task_threads' = <<>>
            /\ ret' = Returned("stop", TRUE)
    /\ UNCHANGED <<nodeVars, taskVars, nodes_, node_map_, node_id, reported, callers,
                   enable_failover>>

\* ------------------------------------------------------------------- Task
\* Task::assignToNode
Task_assignToNode(t, id) ==
    /\ assigned_node_id' = [assigned_node_id EXCEPT ![t] = id]
    /\ UNCHANGED <<nodeVars, statusVars, is_executing, clusterVars, callers, ret,
                   dependencies_, queueVars>>

\* Task::unassignFromNode
Task_unassignFromNode(t) ==
    /\ assigned_node_id' = [assigned_node_id EXCEPT ![t] = NoNode]
    /\ UNCHANGED <<nodeVars, statusVars, is_executing, clusterVars, callers, ret,
                   dependencies_, queueVars>>

\* Task::addDependency: appended unless the id is already in the list
Task_addDependency(t, task_id) ==
    /\ dependencies_' = [dependencies_ EXCEPT ![t] =
           IF task_id \in dependencies(t) THEN @ ELSE Append(@, task_id)]
    /\ UNCHANGED <<nodeVars, statusVars, assigned_node_id, is_executing,
                   queueVars, clusterVars, callers, ret>>

\* Task::removeDependency
Task_removeDependency(t, task_id) ==
    /\ dependencies_' = [dependencies_ EXCEPT ![t] =
           SelectSeq(@, LAMBDA d : d # task_id)]
    /\ UNCHANGED <<nodeVars, statusVars, assigned_node_id, is_executing,
                   queueVars, clusterVars, callers, ret>>

\* a readiness test that is content with one dependency in completed_tasks
areDependenciesMet_anyDependency(t, completed_tasks) ==
    \E i \in 1..Len(dependencies_[t]) : dependencies_[t][i] \in completed_tasks

\* Task::areDependenciesMet: std::find of every dependency in
\* completed_tasks, a vector of which only the membership is read
areDependenciesMet(t, completed_tasks) ==
    \A i \in 1..Len(dependencies_[t]) : dependencies_[t][i] \in completed_tasks

\* Task::areDependenciesMet, called on a task (a const function)
Task_areDependenciesMet(t, completed_tasks) ==
    /\ ret' = Returned("areDependenciesMet", areDependenciesMet(t, completed_tasks))
    /\ UNCHANGED <<nodeVars, taskVars, clusterVars, callers>>

\* Task::setPriority; the priority of a task is set before the task is
\* queued, the key of a queued element stays as it is
Task_setPriority(t, priority) ==
    /\ t \notin ready_queue
    /\ priority_' = [priority_ EXCEPT ![t] = priority]
    /\ UNCHANGED <<nodeVars, statusVars, assigned_node_id, is_executing,
                   dependencies_, ready_queue, dispatched, clusterVars, callers, ret>>

\* a comparator that lets the larger id go first among equal priorities
TaskPriorityComparator_largerIdFirst(a, b) ==
    IF priority_[a] # priority_[b]
    THEN priority_[a] < priority_[b]
    ELSE a < b

\* TaskPriorityComparator::operator(): true when a is to come out after b
TaskPriorityComparator(a, b) ==
    IF priority_[a] # priority_[b]
    THEN priority_[a] < priority_[b]
    ELSE a > b

\* std::priority_queue::push of a task that is not queued
Queue_push(t) ==
    /\ t \notin ready_queue
    /\ ready_queue' = ready_queue \cup {t}
    /\ UNCHANGED <<nodeVars, statusVars, assigned_node_id, is_executing,
                   dependencies_, priority_, dispatched, clusterVars, callers, ret>>

\* std::priority_queue::top and pop: the queue yields an element that the
\* comparator places before no other element
Queue_pop ==
    /\ ready_queue # {}
    /\ \E top \in ready_queue :
          /\ \A other \in ready_queue : ~TaskPriorityComparator(top, other)
          /\ dispatched' = top
          /\ ready_queue' = ready_queue \ {top}
    /\ UNCHANGED <<nodeVars, statusVars, assigned_node_id, is_executing,
                   dependencies_, priority_, clusterVars, callers, ret>>

\* the guards of Task::start, Task::complete, Task::fail and Task::cancel
startAllowed(t) == task_status[t] = "PENDING" /\ assigned_node_id[t] # NoNode
completeAllowed(t) == task_status[t] = "RUNNING"
failAllowed_noCancelledCheck(t) == ~(task_status[t] = "COMPLETED")
failAllowed(t) == ~(task_status[t] = "COMPLETED" \/ task_status[t] = "CANCELLED")
cancelAllowed(t) == ~(task_status[t] = "COMPLETED" \/ task_status[t] = "FAILED")

\* a transition that calls setStatus before it tests its guard
transition_setStatusFirst(t, allowed, to, op) ==
    /\ setStatus(t, to)
    /\ ret' = Returned(op, allowed)
    /\ UNCHANGED <<nodeVars, assigned_node_id, is_executing, clusterVars, callers,
                   dependencies_, queueVars>>

\* a guarded transition: setStatus(to) and true, or false and no change
transition(t, allowed, to, op) ==
    /\ IF allowed
       THEN /\ setStatus(t, to)
            /\ ret' = Returned(op, TRUE)
       ELSE /\ UNCHANGED statusVars
            /\ ret' = Returned(op, FALSE)
    /\ UNCHANGED <<nodeVars, assigned_node_id, is_executing, clusterVars, callers,
                   dependencies_, queueVars>>

\* Task::start
Task_start(t) == transition(t, startAllowed(t), "RUNNING", "start")
\* Task::complete
Task_complete(t) == transition(t, completeAllowed(t), "COMPLETED", "complete")
\* Task::fail
Task_fail(t) == transition(t, failAllowed(t), "FAILED", "fail")
\* Task::cancel
Task_cancel(t) == transition(t, cancelAllowed(t), "CANCELLED", "cancel")

\* Task::execute up to the call of the execution function: the status check
\* and is_executing_.exchange(true)
Task_executeBegin(t) ==
    /\ IF task_status[t] = "RUNNING" /\ ~is_executing[t]
       THEN /\ is_executing' = [is_executing EXCEPT ![t] = TRUE]
            /\ UNCHANGED ret
       ELSE /\ UNCHANGED is_executing
            /\ ret' = Returned("execute", FALSE)
    /\ UNCHANGED <<nodeVars, statusVars, assigned_node_id, clusterVars, callers,
                   dependencies_, queueVars>>

\* Task::execute from the return of the execution function (or of the default
\* simulation, which succeeds): is_executing_ = false, then complete() or
\* fail(), each with its own guard
Task_executeEnd(t, success) ==
    /\ is_executing[t]
    /\ is_executing' = [is_executing EXCEPT ![t] = FALSE]
    /\ IF success
       THEN (IF completeAllowed(t) THEN setStatus(t, "COMPLETED")
             ELSE UNCHANGED statusVars)
       ELSE (IF failAllowed(t) THEN setStatus(t, "FAILED")
             ELSE UNCHANGED statusVars)
    /\ ret' = Returned("execute", success)
    /\ UNCHANGED <<nodeVars, assigned_node_id, clusterVars, callers,
                   dependencies_, queueVars>>

\* ------------------------------------------- concurrent Cluster::submitTask
\* Cluster::submitTask run by several callers at once; neither submitTask nor
\* Node::addTask takes a lock on the node, so the calls interleave between
\* findBestNode, the canAcceptTask test of addTask and the update of addTask.
InFlight == {c \in Callers : callers[c].pc # "idle"}

Idle == [pc |-> "idle", task |-> 0, node |-> NoNode]

\* submitTask line 61-65: findBestNode
Conc_findBestNode(c, t) ==
    /\ callers[c].pc = "idle"
    /\ Len(task_threads) + Cardinality(InFlight) < MaxThreads
    /\ LET best_node_id == findBestNode(requirements(t)) IN
       IF best_node_id = NoNode
       THEN /\ UNCHANGED callers
            /\ ret' = Returned("submitTask", FALSE)
       ELSE /\ callers' = [callers EXCEPT ![c] =
                   [pc |-> "found", task |-> t, node |-> best_node_id]]
            /\ UNCHANGED ret
    /\ UNCHANGED <<nodeVars, taskVars, clusterVars>>

\* submitTask line 66-67 and addTask line 61: getNode, canAcceptTask
Conc_canAcceptTask(c) ==
    /\ callers[c].pc = "found"
    /\ LET node == getNode(callers[c].node) IN
       IF node # 0 /\ canAcceptTask(node, requirements(callers[c].task))
       THEN /\ callers' = [callers EXCEPT ![c].pc = "checked"]
            /\ UNCHANGED ret
       ELSE /\ callers' = [callers EXCEPT ![c] = Idle]
            /\ ret' = Returned("submitTask", FALSE)
    /\ UNCHANGED <<nodeVars, taskVars, clusterVars>>

\* addTask line 65-76 and submitTask line 71-84: the update and the thread
Conc_addTask(c) ==
    /\ callers[c].pc = "checked"
    /\ LET node == getNode(callers[c].node)
           t == callers[c].task
       IN /\ Len(running_tasks[node]) < MaxRunning
          /\ addTaskEffect(node, t)
          /\ task_threads' = Append(task_threads, [task |-> t, pc |-> "spawned"])
    /\ callers' = [callers EXCEPT ![c] = Idle]
    /\ ret' = Returned("submitTask", TRUE)
    /\ UNCHANGED <<node_status, heartbeat_expired, disk_io, statusVars, is_executing,
                   nodes_, node_map_, node_id, is_running, reported,
                   dependencies_, queueVars,
                   status_change_callback_, enable_failover>>

\* ---------------------------- concurrent Node::addTask / Node::removeTask
\* Node has no mutex: calls of addTask and removeTask on one node object
\* from several threads interleave statement by statement, and `+=` / `-=` on
\* current_metrics_ is a read followed by a write. Each caller is a thread
\* that makes one call and ends ("returned"). A call in flight is
\* [pc, op, task, node, cpu, mem, pos]: node is the node object, cpu and mem
\* the values read, pos the position Node::removeTask found.
Call(pc, op, t, o, cpu, mem, pos) ==
    [pc |-> pc, op |-> op, task |-> t, node |-> o, cpu |-> cpu, mem |-> mem,
     pos |-> pos]

\* addTask line 61: canAcceptTask
Ledger_addCheck(c, o, t) ==
    /\ callers[c].pc = "idle"
    /\ o \in Constructed
    /\ IF canAcceptTask(o, requirements(t))
       THEN /\ callers' = [callers EXCEPT ![c] = Call("add_checked", "addTask", t, o, 0, 0, 0)]
            /\ UNCHANGED ret
       ELSE /\ callers' = [callers EXCEPT ![c].pc = "returned"]
            /\ ret' = Returned("addTask", FALSE)
    /\ UNCHANGED <<nodeVars, taskVars, clusterVars>>

\* addTask line 65-66: push_back and assignToNode
Ledger_addPush(c) ==
    /\ callers[c].pc = "add_checked"
    /\ LET o == callers[c].node
           t == callers[c].task
       IN /\ Len(running_tasks[o]) < MaxRunning
          /\ running_tasks' = [running_tasks EXCEPT ![o] = Append(@, t)]
          /\ assigned_node_id' = [assigned_node_id EXCEPT ![t] = node_id[o]]
    /\ callers' = [callers EXCEPT ![c].pc = "pushed"]
    /\ UNCHANGED <<node_status, cpu_usage, memory_usage, disk_io, heartbeat_expired,
                   statusVars, is_executing, clusterVars, ret,
                   dependencies_, queueVars, status_change_callback_>>

\* removeTask line 80-87: find_if; false when the task is not in the list
Ledger_removeFind(c, o, task_id) ==
    /\ callers[c].pc = "idle"
    /\ o \in Constructed
    /\ IF findTask(o, task_id) # 0
       THEN /\ callers' = [callers EXCEPT ![c] =
                   Call("found", "removeTask", task_id, o, 0, 0, findTask(o, task_id))]
            /\ UNCHANGED ret
       ELSE /\ callers' = [callers EXCEPT ![c].pc = "returned"]
            /\ ret' = Returned("removeTask", FALSE)
    /\ UNCHANGED <<nodeVars, taskVars, clusterVars>>

\* addTask line 70-71, removeTask line 91-92: the read of `+=` / `-=`
Ledger_load(c) ==
    /\ callers[c].pc \in {"pushed", "found"}
    /\ callers' = [callers EXCEPT ![c].pc = "loaded",
                                  ![c].cpu = cpu_usage[callers[c].node],
                                  ![c].mem = memory_usage[callers[c].node]]
    /\ UNCHANGED <<nodeVars, taskVars, clusterVars, ret>>

\* addTask line 70-71, removeTask line 91-92: the write of `+=` / `-=`
Ledger_store(c) ==
    /\ callers[c].pc = "loaded"
    /\ LET o == callers[c].node
           t == callers[c].task
           sign == IF callers[c].op = "addTask" THEN 1 ELSE 0 - 1
       IN /\ cpu_usage' = [cpu_usage EXCEPT ![o] = callers[c].cpu + sign * cpuShare(t)]
          /\ memory_usage' = [memory_usage EXCEPT ![o] =
                 callers[c].mem + sign * memoryShare(t)]
    /\ callers' = [callers EXCEPT ![c].pc = "stored"]
    /\ UNCHANGED <<node_status, disk_io, running_tasks, heartbeat_expired, taskVars,
                   clusterVars, ret, status_change_callback_>>

\* addTask line 73-76: std::min(..., 1.0) and return true
Ledger_addClamp(c) ==
    /\ callers[c].pc = "stored"
    /\ callers[c].op = "addTask"
    /\ LET o == callers[c].node IN
       /\ cpu_usage' = [cpu_usage EXCEPT ![o] = Min(@, One)]
       /\ memory_usage' = [memory_usage EXCEPT ![o] = Min(@, One)]
    /\ callers' = [callers EXCEPT ![c].pc = "returned"]
    /\ ret' = Returned("addTask", TRUE)
    /\ UNCHANGED <<node_status, disk_io, running_tasks, heartbeat_expired, taskVars,
                   clusterVars, status_change_callback_>>

\* removeTask line 94-95: std::max(..., 0.0)
Ledger_removeClamp(c) ==
    /\ callers[c].pc = "stored"
    /\ callers[c].op = "removeTask"
    /\ LET o == callers[c].node IN
       /\ cpu_usage' = [cpu_usage EXCEPT ![o] = Max(@, 0)]
       /\ memory_usage' = [memory_usage EXCEPT ![o] = Max(@, 0)]
    /\ callers' = [callers EXCEPT ![c].pc = "clamped"]
    /\ UNCHANGED <<node_status, disk_io, running_tasks, heartbeat_expired, taskVars,
                   clusterVars, ret, status_change_callback_>>

\* removeTask line 97-100: unassignFromNode, erase(it), return true. The
\* iterator is the position found at line 80; when another call has erased
\* since, it names whatever entry is there now, and past the end the erase is
\* undefined: the list is left as it is or loses its last entry.
Ledger_removeErase(c, drop_last) ==
    /\ callers[c].pc = "clamped"
    /\ LET o == callers[c].node
           pos == callers[c].pos
           list == running_tasks[o]
       IN /\ assigned_node_id' = [assigned_node_id EXCEPT ![callers[c].task] = NoNode]
          /\ running_tasks' = [running_tasks EXCEPT ![o] =
                 IF pos <= Len(list) THEN eraseAt(list, pos)
                 ELSE IF drop_last /\ list # <<>> THEN eraseAt(list, Len(list))
                 ELSE list]
    /\ callers' = [callers EXCEPT ![c].pc = "returned"]
    /\ ret' = Returned("removeTask", TRUE)
    /\ UNCHANGED <<node_status, cpu_usage, memory_usage, disk_io, heartbeat_expired,
                   statusVars, is_executing, clusterVars,
                   dependencies_, queueVars, status_change_callback_>>

\* ------------------------------------------------- concurrent Task::execute
\* Task::execute called from several threads on one Task object. status_ is a
\* plain field and is_executing_ an atomic; a thread makes one call and ends
\* ("returned"). A call in flight is [pc, task, ran, success]: ran tells
\* that this call has invoked the execution function (or the default
\* simulation that stands in for it), success what that returned.
Execution(pc, t, ran, success) ==
    [pc |-> pc, task |-> t, ran |-> ran, success |-> success]

\* execute line 130-132: the test of status_
Execute_checkStatus(c, t) ==
    /\ callers[c].pc = "idle"
    /\ IF task_status[t] # "RUNNING"
       THEN /\ callers' = [callers EXCEPT ![c] = Execution("returned", t, FALSE, FALSE)]
            /\ ret' = Returned("execute", FALSE)
       ELSE /\ callers' = [callers EXCEPT ![c] = Execution("checked", t, FALSE, FALSE)]
            /\ UNCHANGED ret
    /\ UNCHANGED <<nodeVars, taskVars, clusterVars>>

\* execute line 134-136: is_executing_.exchange(true)
Execute_exchange(c) ==
    /\ callers[c].pc = "checked"
    /\ LET t == callers[c].task IN
       IF is_executing[t]
       THEN /\ callers' = [callers EXCEPT ![c].pc = "returned"]
            /\ ret' = Returned("execute", FALSE)
            /\ UNCHANGED is_executing
       ELSE /\ is_executing' = [is_executing EXCEPT ![t] = TRUE]
            /\ callers' = [callers EXCEPT ![c].pc = "exchanged"]
            /\ UNCHANGED ret
    /\ UNCHANGED <<nodeVars, statusVars, assigned_node_id, dependencies_, queueVars,
                   clusterVars>>

\* execute line 138-145: the execution function, or the default simulation,
\* which succeeds
Execute_invoke(c, success) ==
    /\ callers[c].pc = "exchanged"
    /\ callers' = [callers EXCEPT ![c] =
           Execution("invoked", callers[c].task, TRUE, success)]
    /\ UNCHANGED <<nodeVars, taskVars, clusterVars, ret>>

\* execute line 147: is_executing_ = false
Execute_reset(c) ==
    /\ callers[c].pc = "invoked"
    /\ is_executing' = [is_executing EXCEPT ![callers[c].task] = FALSE]
    /\ callers' = [callers EXCEPT ![c].pc = "reset"]
    /\ UNCHANGED <<nodeVars, statusVars, assigned_node_id, dependencies_, queueVars,
                   clusterVars, ret>>

\* execute line 149-155: complete() or fail(), each with its own guard, and
\* the return of success
Execute_finish(c) ==
    /\ callers[c].pc = "reset"
    /\ LET t == callers[c].task IN
       IF callers[c].success
       THEN (IF completeAllowed(t) THEN setStatus(t, "COMPLETED")
             ELSE UNCHANGED statusVars)
       ELSE (IF failAllowed(t) THEN setStatus(t, "FAILED")
             ELSE UNCHANGED statusVars)
    /\ callers' = [callers EXCEPT ![c].pc = "returned"]
    /\ ret' = Returned("execute", callers[c].success)
    /\ UNCHANGED <<nodeVars, assigned_node_id, is_executing, dependencies_, queueVars,
                   clusterVars>>

\* ---------------------------------------------------------- specifications
\* the cluster's interface, one caller, with the execution threads
Next ==
    \/ \E t \in Tasks : Cluster_submitTask(t)
    \/ \E i \in 1..MaxThreads : ThreadStep(i)
    \/ \E t \in Tasks : Cluster_cancelTask(t)
    \/ Cluster_start
    \/ Cluster_stop

Spec == Init /\ [][Next]_vars

\* submissions and cancellations with threads that are scheduled: a
\* boost::thread runs from its construction on, and a thread that can take
\* a step is not left waiting forever
NextFair ==
    \/ \E t \in Tasks : Cluster_submitTask(t)
    \/ \E i \in 1..MaxThreads : ThreadStep(i)
    \/ \E t \in Tasks : Cluster_cancelTask(t)

SpecFair ==
    /\ Init
    /\ [][NextFair]_vars
    /\ \A i \in 1..MaxThreads : WF_vars(ThreadStep(i))

\* the cluster with the health signal: status changes of the nodes, missed
\* heartbeats and Cluster::updateNodeHealth, between submissions
NextHealth ==
    \/ \E t \in Tasks : Cluster_submitTask(t)
    \/ \E i \in 1..MaxThreads : ThreadStep(i)
    \/ \E id \in NodeIds, s \in NodeStatus : Cluster_updateNodeHealth(id, s)
    \/ \E o \in NodeObjs, s \in NodeStatus : Node_setStatus(o, s)
    \/ \E o \in NodeObjs : Node_updateHeartbeat(o)
    \/ \E o \in NodeObjs : HeartbeatTimeout(o)

SpecHealth == Init /\ [][NextHealth]_vars

\* the interface of a Node
NextNode ==
    \/ \E o \in NodeObjs, t \in Tasks : Node_addTask(o, t)
    \/ \E o \in NodeObjs, t \in Tasks : Node_removeTask(o, t)
    \/ \E o \in NodeObjs, l \in Loads : Node_updateMetrics(o, l.cpu, l.mem, l.disk)
    \/ \E o \in NodeObjs, l \in Loads : Node_simulateWorkload(o, l.cpu, l.mem, l.disk)

SpecNode == Init /\ [][NextNode]_vars

\* the feasibility test of one node, the first of the cluster, under status
\* changes and workloads
NextFeasibility ==
    \/ \E s \in NodeStatus : Node_setStatus(nodes_[1], s)
    \/ \E l \in QueryLoads, d \in DiskDraws :
           Node_simulateWorkload(nodes_[1], l.cpu, l.mem, d)
    \/ \E reqs \in Requests : Node_canAcceptTask(nodes_[1], reqs)

SpecFeasibility == Init /\ [][NextFeasibility]_vars

\* the health test of one node, the first of the cluster, under status
\* changes, metrics and heartbeats
NextHealthy ==
    \/ \E s \in NodeStatus : Node_setStatus(nodes_[1], s)
    \/ \E l \in QueryLoads : Node_updateMetrics(nodes_[1], l.cpu, l.mem, 0)
    \/ Node_updateHeartbeat(nodes_[1])
    \/ HeartbeatTimeout(nodes_[1])
    \/ Node_isHealthy(nodes_[1])

SpecHealthy == Init /\ [][NextHealthy]_vars

\* the interface of a Task; a task is assigned to the first node of the
\* cluster
NextTask ==
    \/ \E t \in Tasks : Task_assignToNode(t, node_id[nodes_[1]])
    \/ \E t \in Tasks : Task_unassignFromNode(t)
    \/ \E t \in Tasks : Task_start(t)
    \/ \E t \in Tasks : Task_complete(t)
    \/ \E t \in Tasks : Task_fail(t)
    \/ \E t \in Tasks : Task_cancel(t)
    \/ \E t \in Tasks : Task_executeBegin(t)
    \/ \E t \in Tasks, success \in BOOLEAN : Task_executeEnd(t, success)

SpecTask == Init /\ [][NextTask]_vars

\* the status transitions of a Task alone: start, complete, fail and cancel
\* on tasks a node may have been assigned to
NextTransitions ==
    \/ \E t \in Tasks, id \in NodeIds : Task_assignToNode(t, id)
    \/ \E t \in Tasks : Task_start(t)
    \/ \E t \in Tasks : Task_complete(t)
    \/ \E t \in Tasks : Task_fail(t)
    \/ \E t \in Tasks : Task_cancel(t)

SpecTransitions == Init /\ [][NextTransitions]_vars

\* concurrent submissions
NextConc ==
    \/ \E c \in Callers, t \in Tasks : Conc_findBestNode(c, t)
    \/ \E c \in Callers : Conc_canAcceptTask(c)
    \/ \E c \in Callers : Conc_addTask(c)
    \/ \E i \in 1..MaxThreads : ThreadStep(i)

SpecConc == Init /\ [][NextConc]_vars

\* building the cluster: addNode with any id, then submissions
NextAdd ==
    \/ \E id \in NodeIds : Cluster_addNode(id)
    \/ \E t \in Tasks : Cluster_submitTask(t)
    \/ \E i \in 1..MaxThreads : ThreadStep(i)
    \/ \E t \in Tasks : Cluster_cancelTask(t)

SpecAdd == InitEmpty /\ [][NextAdd]_vars

\* the status of one node, the first of the cluster, with tasks on it: its
\* status callback, its heartbeat and the health reports of the cluster
NextStatus ==
    \/ \E t \in Tasks : Node_addTask(nodes_[1], t)
    \/ \E t \in Tasks : Node_removeTask(nodes_[1], t)
    \/ \E s \in NodeStatus : Node_setStatus(nodes_[1], s)
    \/ \E callback \in {"none", "updateNodeHealth"} :
           Node_setStatusChangeCallback(nodes_[1], callback)
    \/ Node_updateHeartbeat(nodes_[1])
    \/ HeartbeatTimeout(nodes_[1])
    \/ \E s \in NodeStatus : Cluster_updateNodeHealth(node_id[nodes_[1]], s)

SpecStatus == InitConfig /\ [][NextStatus]_vars

\* the ledger of one node, the first of the cluster, under single calls,
\* an add followed at once by its remove, and metrics updates
NextRoundTrip ==
    \/ \E t \in Tasks : Node_addTask(nodes_[1], t)
    \/ \E t \in Tasks : Node_removeTask(nodes_[1], t)
    \/ \E t \in Tasks : Node_addTaskThenRemoveTask(nodes_[1], t)
    \/ \E l \in Loads : Node_updateMetrics(nodes_[1], l.cpu, l.mem, l.disk)
    \/ \E l \in QueryLoads : Node_updateMetrics(nodes_[1], l.cpu, l.mem, 0)

SpecRoundTrip == Init /\ [][NextRoundTrip]_vars

\* a priority queue of the tasks: priorities are set, tasks are queued and
\* the queue is drained
NextDispatch ==
    \/ \E t \in Tasks, priority \in TaskPriority : Task_setPriority(t, priority)
    \/ \E t \in Tasks : Queue_push(t)
    \/ Queue_pop

SpecDispatch == Init /\ [][NextDispatch]_vars

\* nodes that only see Node::addTask and Node::removeTask, starting empty
NextConservation ==
    \/ \E o \in NodeObjs, t \in Tasks : Node_addTask(o, t)
    \/ \E o \in NodeObjs, t \in Tasks : Node_removeTask(o, t)

SpecConservation == Init /\ [][NextConservation]_vars

\* Task::execute called by several threads on tasks that were assigned and
\* started
NextExecute ==
    \/ \E t \in Tasks : Task_assignToNode(t, node_id[nodes_[1]])
    \/ \E t \in Tasks : Task_start(t)
    \/ \E c \in Callers, t \in Tasks : Execute_checkStatus(c, t)
    \/ \E c \in Callers : Execute_exchange(c)
    \/ \E c \in Callers, success \in BOOLEAN : Execute_invoke(c, success)
    \/ \E c \in Callers : Execute_reset(c)
    \/ \E c \in Callers : Execute_finish(c)

SpecExecute == Init /\ [][NextExecute]_vars

\* placing tasks on nodes and releasing them, by the node and by the cluster
NextRelease ==
    \/ \E o \in NodeObjs, t \in Tasks : Node_addTask(o, t)
    \/ \E o \in NodeObjs, t \in Tasks : Node_removeTask(o, t)
    \/ \E t \in Tasks : Cluster_cancelTask(t)

SpecRelease == Init /\ [][NextRelease]_vars

\* the dependency list of one task, the first, and its readiness test
NextReady ==
    \/ \E task_id \in DepIds : Task_addDependency(1, task_id)
    \/ \E task_id \in DepIds : Task_removeDependency(1, task_id)
    \/ \E completed_tasks \in SUBSET DepIds : Task_areDependenciesMet(1, completed_tasks)

SpecReady == Init /\ [][NextReady]_vars

\* concurrent ledger calls on one node, the first of the cluster
NextLedger ==
    \/ \E c \in Callers, t \in Tasks : Ledger_addCheck(c, nodes_[1], t)
    \/ \E c \in Callers : Ledger_addPush(c)
    \/ \E c \in Callers, t \in Tasks : Ledger_removeFind(c, nodes_[1], t)
    \/ \E c \in Callers : Ledger_load(c)
    \/ \E c \in Callers : Ledger_store(c)
    \/ \E c \in Callers : Ledger_addClamp(c)
    \/ \E c \in Callers : Ledger_removeClamp(c)
    \/ \E c \in Callers, drop_last \in BOOLEAN : Ledger_removeErase(c, drop_last)

SpecLedger == Init /\ [][NextLedger]_vars

\* node selection: a cluster built by addNode with any ids, nodes that miss
\* and renew their heartbeat, and submissions
NextSelection ==
    \/ \E id \in NodeIds : Cluster_addNode(id)
    \/ \E o \in NodeObjs : HeartbeatTimeout(o)
    \/ \E o \in NodeObjs : Node_updateHeartbeat(o)
    \/ \E t \in Tasks : Cluster_submitTask(t)

SpecSelection == InitEmpty /\ [][NextSelection]_vars

\* ------------------------------------------------------------------ claims
\* what the tasks in a node's running_tasks_ require, summed
RECURSIVE sumCpuCores(_)
sumCpuCores(list) ==
    IF list = <<>> THEN 0
    ELSE requirements(Head(list)).cpu_cores + sumCpuCores(Tail(list))

RECURSIVE sumMemoryGb(_)
sumMemoryGb(list) ==
    IF list = <<>> THEN 0
    ELSE requirements(Head(list)).memory_gb + sumMemoryGb(Tail(list))

\* C1: on every node the cpu cores of the tasks in its running list sum to at
\* most max_cpu_cores and their memory to at most max_memory_gb, after any
\* sequence of addTask, removeTask, updateMetrics and simulateWorkload.
C1_CapacityNeverExceeded ==
    \A o \in Constructed :
        /\ sumCpuCores(running_tasks[o]) <= max_cpu_cores
        /\ sumMemoryGb(running_tasks[o]) <= max_memory_gb

\* C2: two concurrent admissions on one node never both get past the
\* feasibility check with requirements that together exceed what the node
\* has free.
C2_AdmissionsAtomic ==
    \A c1 \in Callers, c2 \in Callers :
        (/\ c1 # c2
         /\ callers[c1].pc = "checked"
         /\ callers[c2].pc = "checked"
         /\ callers[c1].node = callers[c2].node)
        => LET o == getNode(callers[c1].node)
               r1 == requirements(callers[c1].task)
               r2 == requirements(callers[c2].task)
           IN /\ (r1.cpu_cores + r2.cpu_cores) * One
                    <= max_cpu_cores * (One - cpu_usage[o])
              /\ (r1.memory_gb + r2.memory_gb) * One
                    <= max_memory_gb * (One - memory_usage[o])

\* C3: cpu_usage and memory_usage of every node are within [0, 1] after any
\* sequence of addTask, removeTask, updateMetrics and simulateWorkload.
C3_UsageInUnitInterval ==
    \A o \in Constructed :
        /\ 0 <= cpu_usage[o] /\ cpu_usage[o] <= One
        /\ 0 <= memory_usage[o] /\ memory_usage[o] <= One

\* C4: a task enters RUNNING only when each of its dependencies is COMPLETED;
\* stated for the tasks whose dependencies have all been accepted by the
\* cluster too (each is on a node), as when a chain is submitted in order.
C4_DependencyOrder ==
    [][\A t \in Tasks :
          (/\ task_status[t] # "RUNNING"
           /\ task_status'[t] = "RUNNING"
           /\ \A d \in dependencies(t) : assigned_node_id[d] # NoNode)
          => \A d \in dependencies(t) : task_status[d] = "COMPLETED"]_vars

\* C5: a COMPLETED task has been released: it is in no node's running list.
C5_CompletedIsReleased ==
    \A t \in Tasks :
        task_status[t] = "COMPLETED"
        => \A o \in Constructed : findTask(o, t) = 0

\* C6: once the 4-core task (task 1) that alone booked a node has completed,
\* the node takes the 1-core task (task 2): it is healthy and feasible for it.
C6_EligibleAfterCompletion ==
    \A o \in Constructed :
        (running_tasks[o] = <<1>> /\ task_status[1] = "COMPLETED")
        => (isHealthy(o) /\ canAcceptTask(o, requirements(2)))

\* C7: the FAILED signal for a node sends every task on the node back to
\* PENDING with no assigned node and releases all the node holds.
C7_FailureReleasesTasks ==
    [][\A id \in NodeIds :
          Cluster_updateNodeHealth(id, "FAILED")
          => LET o == getNode(id) IN
             /\ running_tasks'[o] = <<>>
             /\ cpu_usage'[o] = 0
             /\ memory_usage'[o] = 0
             /\ \A i \in 1..Len(running_tasks[o]) :
                    /\ task_status'[running_tasks[o][i]] = "PENDING"
                    /\ assigned_node_id'[running_tasks[o][i]] = NoNode]_vars

\* C8: while the last health signal is FAILED for a node, node selection does
\* not return that node, whatever the requirements.
C8_FailedNodeNotChosen ==
    \A t \in Tasks :
        reported.status = "FAILED" => findBestNode(requirements(t)) # reported.id

\* C9: Task::cancel on a RUNNING task is rejected and the task stays RUNNING.
C9_RunningNotCancellable ==
    [][\A t \in Tasks :
          (Task_cancel(t) /\ task_status[t] = "RUNNING")
          => (ret' = Returned("cancel", FALSE) /\ task_status'[t] = "RUNNING")]_vars

\* C10: once a task is COMPLETED, FAILED or CANCELLED, no call of start,
\* complete, fail, cancel or execute changes its status.
C10_TerminalImmutable ==
    [][\A t \in Tasks :
          task_status[t] \in Terminal => task_status'[t] = task_status[t]]_vars

\* a transition was attempted on a terminal task: every task is terminal, one
\* of them CANCELLED, and the last call, a fail, was refused
C10_Witness ==
    /\ \A t \in Tasks : task_status[t] \in Terminal
    /\ \E t \in Tasks : task_status[t] = "CANCELLED"
    /\ ret = Returned("fail", FALSE)

\* C11: every call of start, complete, fail or cancel on a task that is
\* COMPLETED, FAILED or CANCELLED returns false.
C11_TerminalCallsRejected ==
    [][\A t \in Tasks :
          /\ (Task_start(t) /\ task_status[t] \in Terminal)
                 => ret' = Returned("start", FALSE)
          /\ (Task_complete(t) /\ task_status[t] \in Terminal)
                 => ret' = Returned("complete", FALSE)
          /\ (Task_fail(t) /\ task_status[t] \in Terminal)
                 => ret' = Returned("fail", FALSE)
          /\ (Task_cancel(t) /\ task_status[t] \in Terminal)
                 => ret' = Returned("cancel", FALSE)]_vars

\* C12: a task becomes COMPLETED or FAILED only in a step that starts with
\* the task RUNNING; a PENDING task never goes directly to either.
C12_TerminalOnlyFromRunning ==
    [][\A t \in Tasks :
          (task_status'[t] \in {"COMPLETED", "FAILED"}
              /\ task_status'[t] # task_status[t])
          => task_status[t] = "RUNNING"]_vars

\* C13: a call of start, complete, fail or cancel that returns false leaves
\* the task's status, assigned node, start time and completion time as they
\* were and calls no status callback (what the callback was last told stays).
C13_RejectedLeavesTaskUnchanged ==
    [][\A t \in Tasks :
          ((Task_start(t) \/ Task_complete(t) \/ Task_fail(t) \/ Task_cancel(t))
              /\ ~ret'.ok)
          => UNCHANGED <<task_status, assigned_node_id, started_time,
                         completed_time, notified_status>>]_vars

\* a transition was refused on a task that has run to completion on a node:
\* every task is COMPLETED with both times set, and the last call returned false
C13_Witness ==
    /\ \A t \in Tasks : /\ task_status[t] = "COMPLETED"
                        /\ assigned_node_id[t] # NoNode
                        /\ started_time[t] = 1
                        /\ completed_time[t] = 1
    /\ ret.op \in {"start", "complete", "fail", "cancel"}
    /\ ~ret.ok

\* C14: in every reachable state a task that is COMPLETED, FAILED or
\* CANCELLED has no assigned node.
C14_TerminalUnassigned ==
    \A t \in Tasks : task_status[t] \in Terminal => assigned_node_id[t] = NoNode

\* C15: Node::canAcceptTask returns true exactly when the node is ONLINE, its
\* free cores max_cpu_cores * (1 - cpu_usage) are at least the cores asked
\* for, its free memory max_memory_gb * (1 - memory_usage) is at least the
\* memory asked for, and the disk asked for is at most a tenth of max_disk_gb;
\* the disk_io of the node and the network need of the task play no part.
C15_FeasibilityRule ==
    [][\A o \in NodeObjs, reqs \in Requests :
          Node_canAcceptTask(o, reqs)
          => (ret'.ok <=>
                 /\ node_status[o] = "ONLINE"
                 /\ max_cpu_cores * (One - cpu_usage[o]) >= reqs.cpu_cores * One
                 /\ max_memory_gb * (One - memory_usage[o]) >= reqs.memory_gb * One
                 /\ 10 * reqs.disk_gb <= max_disk_gb)]_vars

\* the test has accepted a task on a node that is half used and reads a
\* disk_io of 100 MB/s
C15_Witness ==
    /\ ret = Returned("canAcceptTask", TRUE)
    /\ \E o \in NodeObjs : /\ node_status[o] = "ONLINE"
                           /\ disk_io[o] = 100
                           /\ cpu_usage[o] = One \div 2
                           /\ memory_usage[o] = One \div 2

\* C16: Node::isHealthy returns true exactly when the node is ONLINE, the
\* time since its last heartbeat is below the failover timeout, its CPU usage
\* is below 0.80 and its memory usage is below 0.85.
C16_HealthRule ==
    [][\A o \in NodeObjs :
          Node_isHealthy(o)
          => (ret'.ok <=>
                 /\ node_status[o] = "ONLINE"
                 /\ ~heartbeat_expired[o]
                 /\ 100 * cpu_usage[o] < 80 * One
                 /\ 100 * memory_usage[o] < 85 * One)]_vars

\* the test has called a node unhealthy that is ONLINE and half used but has
\* missed its heartbeat
C16_Witness ==
    /\ ret = Returned("isHealthy", FALSE)
    /\ \E o \in NodeObjs : /\ node_status[o] = "ONLINE"
                           /\ heartbeat_expired[o]
                           /\ cpu_usage[o] = One \div 2
                           /\ memory_usage[o] = One \div 2

\* C17: what Cluster::findBestNode returns is -1 or the id of a node that is
\* both healthy and feasible for the requirements, and it is -1 only when no
\* node is both.
C17_SelectedIsCandidate ==
    \A t \in Tasks :
        LET reqs == requirements(t)
            candidates == {o \in Constructed :
                              isHealthy(o) /\ canAcceptTask(o, reqs)}
            best == findBestNode(reqs)
        IN /\ best # NoNode => \E o \in candidates : node_id[o] = best
           /\ best = NoNode => candidates = {}

\* a submission has been accepted, and for some task the selection passes
\* over a node that could take it but has missed its heartbeat
C17_Witness ==
    /\ ret = Returned("submitTask", TRUE)
    /\ \E t \in Tasks, o \in Constructed :
           /\ ~isHealthy(o)
           /\ canAcceptTask(o, requirements(t))
           /\ findBestNode(requirements(t)) # NoNode
           /\ findBestNode(requirements(t)) # node_id[o]

\* C18: when some node is both healthy and feasible, the node selected has
\* the highest score among these nodes and, among those of the highest
\* score, the smallest id, in whatever order the nodes were added.
C18_HighestScoreSmallestId ==
    \A t \in Tasks :
        LET reqs == requirements(t)
            candidates == {o \in Constructed :
                              isHealthy(o) /\ canAcceptTask(o, reqs)}
            best == findBestNode(reqs)
        IN candidates # {} =>
              \E o \in candidates :
                  /\ node_id[o] = best
                  /\ \A p \in candidates :
                         \/ score(o) > score(p)
                         \/ score(o) = score(p) /\ node_id[o] <= node_id[p]

\* C19: a Cluster::submitTask that returns false leaves the task as it was,
\* PENDING with no assigned node when it was submitted so, and changes no
\* node's usage or task list.
C19_FailedSubmitChangesNothing ==
    [][\A t \in Tasks :
          (Cluster_submitTask(t) /\ ret' = Returned("submitTask", FALSE))
          => /\ UNCHANGED <<task_status, assigned_node_id>>
             /\ UNCHANGED <<cpu_usage, memory_usage, running_tasks>>]_vars

\* a submission has been refused in a full cluster: every node is added and
\* holds a task, one task is still PENDING with no assigned node
C19_Witness ==
    /\ ret = Returned("submitTask", FALSE)
    /\ Len(nodes_) = MaxNodes
    /\ \A o \in Constructed : running_tasks[o] # <<>>
    /\ \E t \in Tasks : task_status[t] = "PENDING" /\ assigned_node_id[t] = NoNode

\* C20: each task is in the running_tasks_ of at most one node and at most
\* once there, also when it is submitted more than once.
C20_PlacedAtMostOnce ==
    \A t \in Tasks :
        Cardinality({<<o, i>> \in NodeObjs \X (1..MaxRunning) :
                        i <= Len(running_tasks[o]) /\ running_tasks[o][i] = t}) <= 1

\* the usage the tasks in a node's running_tasks_ account for, summed
RECURSIVE sumCpuShare(_)
sumCpuShare(list) ==
    IF list = <<>> THEN 0 ELSE cpuShare(Head(list)) + sumCpuShare(Tail(list))

RECURSIVE sumMemoryShare(_)
sumMemoryShare(list) ==
    IF list = <<>> THEN 0 ELSE memoryShare(Head(list)) + sumMemoryShare(Tail(list))

\* C21: concurrent addTask and removeTask calls on a node leave it as some
\* serial order of the calls would: no state, intermediate ones included,
\* shows a usage below 0 or above 1, and once no call is in flight the usage
\* of every node is what the tasks in its list account for (every serial
\* order keeps it so).
C21_LedgerSerializable ==
    /\ \A o \in NodeObjs : /\ 0 <= cpu_usage[o] /\ cpu_usage[o] <= One
                           /\ 0 <= memory_usage[o] /\ memory_usage[o] <= One
    /\ (\A c \in Callers : callers[c].pc \in {"idle", "returned"}) =>
          \A o \in NodeObjs : /\ cpu_usage[o] = sumCpuShare(running_tasks[o])
                              /\ memory_usage[o] = sumMemoryShare(running_tasks[o])

\* C22: when Cluster::cancelTask returns true for a PENDING task, the task
\* is CANCELLED on return (and so, a terminal status being final, never
\* RUNNING or COMPLETED afterwards).
C22_CancelPendingIsImmediate ==
    [][\A t \in Tasks :
          (/\ Cluster_cancelTask(t)
           /\ task_status[t] = "PENDING"
           /\ ret' = Returned("cancelTask", TRUE))
          => task_status'[t] = "CANCELLED"]_vars

\* C23: Task::areDependenciesMet(completed) returns true exactly when every
\* dependency id of the task is in the completed set; a dependency that is
\* not in it (a FAILED or CANCELLED one never is) keeps the answer false.
C23_ReadyIffAllCompleted ==
    [][\A t \in Tasks, completed \in SUBSET DepIds :
          Task_areDependenciesMet(t, completed)
          => (ret'.ok <=>
                 {dependencies_[t][i] : i \in DOMAIN dependencies_[t]}
                     \subseteq completed)]_vars

\* the test has refused a task with three dependencies
C23_Witness ==
    /\ ret = Returned("areDependenciesMet", FALSE)
    /\ \E t \in Tasks : Len(dependencies_[t]) = 3

\* task a depends on id b through at most n edges of the dependency lists
RECURSIVE dependsOn(_, _, _)
dependsOn(a, b, n) ==
    /\ n > 0
    /\ a \in Tasks
    /\ \E i \in 1..Len(dependencies_[a]) :
          \/ dependencies_[a][i] = b
          \/ dependsOn(dependencies_[a][i], b, n - 1)

\* C24: adding a dependency that would close a cycle (a task on itself, or a
\* task on one that already depends on it) is rejected and leaves the
\* dependency lists as they were.
C24_CycleRejected ==
    [][\A t \in Tasks, task_id \in DepIds :
          (/\ Task_addDependency(t, task_id)
           /\ (task_id = t \/ dependsOn(task_id, t, NumTasks)))
          => dependencies_' = dependencies_]_vars

\* C25: the status of a node changes only along ONLINE <-> DEGRADED,
\* DEGRADED <-> FAILED and ONLINE <-> OFFLINE; no call of Node::setStatus
\* takes it along another edge.
C25_StatusEdges ==
    [][\A o \in NodeObjs :
          node_status'[o] # node_status[o]
          => <<node_status[o], node_status'[o]>> \in
                {<<"ONLINE", "DEGRADED">>, <<"DEGRADED", "ONLINE">>,
                 <<"DEGRADED", "FAILED">>, <<"FAILED", "DEGRADED">>,
                 <<"ONLINE", "OFFLINE">>, <<"OFFLINE", "ONLINE">>}]_vars

\* C26: every change of the status of a node of the cluster by
\* Node::setStatus has Cluster::updateNodeHealth called with the id of the
\* node and its new status.
C26_StatusChangeReported ==
    [][\A o \in NodeObjs, s \in NodeStatus :
          (Node_setStatus(o, s) /\ node_status[o] # s)
          => (reported'.id = node_id[o] /\ reported'.status = s)]_vars

\* C27: Node::setStatus to any status, and a heartbeat timeout, leave the
\* task list of the node, the assigned node of every task and the cpu and
\* memory usage of the node as they were.
C27_StatusKeepsTasks ==
    [][\A o \in NodeObjs :
          ((\E s \in NodeStatus : Node_setStatus(o, s)) \/ HeartbeatTimeout(o))
          => UNCHANGED <<running_tasks, assigned_node_id, cpu_usage, memory_usage>>]_vars

\* a node that holds a task has been set FAILED and its heartbeat has timed out
C27_Witness ==
    \E o \in NodeObjs : /\ Len(running_tasks[o]) > 0
                        /\ cpu_usage[o] > 0
                        /\ node_status[o] = "FAILED"
                        /\ heartbeat_expired[o]

\* C30: Cluster::updateNodeHealth(n, s) goes on to the handling of a node
\* failure exactly when s is FAILED and failover is enabled; ONLINE, OFFLINE
\* and DEGRADED never do.
C30_FailureHandledIffFailed ==
    [][\A id \in NodeIds, s \in NodeStatus :
          Cluster_updateNodeHealth(id, s)
          => (reported'.handled <=> (s = "FAILED" /\ enable_failover))]_vars

\* a FAILED report was handled, failover being enabled
C30_Witness ==
    /\ enable_failover
    /\ reported.status = "FAILED"
    /\ reported.handled

\* C28: over any sequence of Cluster::submitTask and Cluster::cancelTask
\* calls, resubmissions included, the status of a task never goes from
\* RUNNING back to PENDING and never leaves COMPLETED, FAILED or CANCELLED.
C28_StatusMonotonic ==
    [][\A t \in Tasks :
          /\ task_status[t] \in Terminal => task_status'[t] = task_status[t]
          /\ task_status[t] = "RUNNING" => task_status'[t] # "PENDING"]_vars

\* C29: a successful Node::addTask(t) immediately followed by
\* Node::removeTask(t.id) restores the cpu usage, the memory usage and the
\* task list of the node and leaves t unassigned.
C29_AddRemoveRestores ==
    [][\A o \in NodeObjs, t \in Tasks :
          (Node_addTaskThenRemoveTask(o, t) /\ canAcceptTask(o, requirements(t)))
          => /\ UNCHANGED <<cpu_usage, memory_usage, running_tasks>>
             /\ assigned_node_id'[t] = NoNode]_vars

C33_RunningIsPlaced ==
    \A t \in Tasks :
        task_status[t] = "RUNNING"
        => /\ assigned_node_id[t] # NoNode
           /\ getNode(assigned_node_id[t]) # 0
           /\ findTask(getNode(assigned_node_id[t]), t) # 0

\* C34: of any number of concurrent Task::execute calls on one RUNNING task
\* at most one invokes the execution function; the others return false.
C34_ExecutedAtMostOnce ==
    \A t \in Tasks :
        Cardinality({c \in Callers : /\ callers[c].pc # "idle"
                                     /\ callers[c].task = t
                                     /\ callers[c].ran}) <= 1

\* the node object the loop of Cluster::findBestNode settles on: the first
\* in nodes_ of the healthy and feasible nodes of the highest score
chosenNode(reqs) ==
    LET candidates == {i \in 1..Len(nodes_) :
                          isHealthy(nodes_[i]) /\ canAcceptTask(nodes_[i], reqs)}
        top == {i \in candidates :
                   \A j \in candidates : score(nodes_[i]) >= score(nodes_[j])}
    IN nodes_[CHOOSE i \in top : \A j \in top : i <= j]

\* C35: when Cluster::submitTask returns true the task is in the task list
\* of the node chosen by findBestNode, with that node as its assigned node,
\* the cpu and memory usage of that node have each grown by
\* requirement / capacity, and the usage and the task list of every other
\* node are unchanged.
C35_SubmitCommitsOneAssignment ==
    [][\A t \in Tasks :
          (Cluster_submitTask(t) /\ ret' = Returned("submitTask", TRUE))
          => LET chosen == chosenNode(requirements(t)) IN
             /\ running_tasks'[chosen] = Append(running_tasks[chosen], t)
             /\ assigned_node_id'[t] = node_id[chosen]
             /\ cpu_usage'[chosen] = cpu_usage[chosen] + cpuShare(t)
             /\ memory_usage'[chosen] = memory_usage[chosen] + memoryShare(t)
             /\ \A o \in NodeObjs \ {chosen} :
                   /\ running_tasks'[o] = running_tasks[o]
                   /\ cpu_usage'[o] = cpu_usage[o]
                   /\ memory_usage'[o] = memory_usage[o]]_vars

\* C38: after any sequence of Cluster::addNode calls, calls that reuse a
\* node id included, every node in nodes_ is the node Cluster::getNode
\* returns for its id, and nodes_ holds at most one node per id.
C38_IndexMatchesList ==
    /\ \A o \in Constructed : getNode(node_id[o]) = o
    /\ \A o, p \in Constructed : node_id[o] = node_id[p] => o = p

\* C36: every accepted task eventually completes: the thread that
\* Cluster::submitTask started for it, fairly scheduled, sets the task
\* RUNNING and after that COMPLETED.
C36_AcceptedCompletes ==
    \A i \in 1..MaxThreads :
        /\ (i <= Len(task_threads) /\ task_threads[i].pc = "spawned")
              ~> (/\ i <= Len(task_threads)
                  /\ task_threads[i].pc = "running"
                  /\ task_status[task_threads[i].task] = "RUNNING")
        /\ (i <= Len(task_threads) /\ task_threads[i].pc = "running")
              ~> (/\ i <= Len(task_threads)
                  /\ task_threads[i].pc = "done"
                  /\ task_status[task_threads[i].task] = "COMPLETED")

\* every thread the cluster may hold has run its task to COMPLETED
C36_Witness ==
    /\ Len(task_threads) = MaxThreads
    /\ \A i \in 1..Len(task_threads) :
          /\ task_threads[i].pc = "done"
          /\ task_status[task_threads[i].task] = "COMPLETED"

\* C37: when Cluster::stop returns, every thread started by an earlier
\* Cluster::submitTask has ended, whether or not Cluster::start was called
\* before the submissions.
C37_StopWaitsForThreads ==
    [][Cluster_stop => AllThreadsDone]_vars

\* C39: Node::removeTask and Cluster::cancelTask with the id of a task that
\* is on no node return false and leave the usage and the task list of
\* every node and the status and the assignment of every task unchanged.
C39_UnknownReleaseIsNoOp ==
    [][\A t \in Tasks :
          (/\ \A o \in Constructed : findTask(o, t) = 0
           /\ \/ Cluster_cancelTask(t)
              \/ \E o \in NodeObjs : Node_removeTask(o, t))
          => /\ ret'.ok = FALSE
             /\ UNCHANGED <<cpu_usage, memory_usage, running_tasks,
                            task_status, assigned_node_id>>]_vars

\* a cancelTask was refused while a node holds a task
C39_Witness ==
    /\ ret = Returned("cancelTask", FALSE)
    /\ \E o \in Constructed : running_tasks[o] # <<>>

====
